---------------------------- MODULE Spec2Model ----------------------------
(***************************************************************************)
(* Model of pyRouterJig's geometry engine (src/router.py): router bit,     *)
(* per-cut pass synthesis, edge cut propagation and board stack assembly.  *)
(*                                                                         *)
(* Numbers.  The code computes with decimal.Decimal.  A Decimal value v is *)
(* represented by the integer v * Scale (fixed point, five decimal        *)
(* places), which is exact for every value the model draws.  Python ints   *)
(* (router passes, cutpass, bit depth, gentleness percent, angle degrees)  *)
(* are kept as plain integers and converted with D(_) where the code mixes *)
(* them with Decimals.                                                     *)
(***************************************************************************)
EXTENDS Integers, Sequences, FiniteSets, TLC

VARIABLES
    bit,      \* the Router_Bit the running call was given
    board,    \* the Board the running call was given
    cut,      \* the Cut object: xmin, xmax, passes
    loc,      \* locals of Cut.make_router_passes
    pc,       \* position inside the running call
    err,      \* which raise statement ended the call ("none" while none did)
    cuts,     \* adjoining_cuts: the list of cuts it was given
    adjCuts,  \* adjoining_cuts: the list it returned
    boards,   \* cut_boards: the four boards
    spacing,  \* cut_boards: spacing.cuts
    last,     \* cut_boards: local "last"
    top,      \* cut_boards: local "top"
    call,     \* Router_Bit: the setter called last and its argument
    geom,     \* Joint_Geometry: max_gap and max_overlap
    origin,   \* My_Rectangle.xOrg, yOrg of the board or boards
    height,   \* Board.height of the board or boards
    shape,    \* what Board.perimeter / Board.triangulate returned
    file      \* serialize / unserialize: the record and what was read back

vars == <<bit, board, cut, loc, pc, err, cuts, adjCuts, boards, spacing, last, top,
          call, geom, origin, height, shape, file>>

passVars == <<bit, board, cut, loc>>
adjVars == <<cuts, adjCuts>>
stackVars == <<boards, spacing, last, top>>
bitVars == <<call, geom>>
geoVars == <<origin, height, shape, file>>

---------------------------------------------------------------------------
(* Bounds of the model *)

MaxBoardWidth == 10   \* board width of the single-cut runs
MaxBitWidth == 6      \* widest bit
MaxStackWidth == 6    \* board width of the propagation and stack runs
MaxCuts == 3          \* longest list of cuts given to adjoining_cuts

(* Fixed point *)

Scale == 10 ^ 5

D(n) == n * Scale

\* Quotient truncated toward zero (Python int() and Decimal // both truncate).
TruncQuot(a, b) == IF a >= 0 THEN a \div b ELSE -((-a) \div b)

\* int(x) of a Decimal x
ToInt(x) == TruncQuot(x, Scale)

\* Decimal x // n for a positive Python int n: the integer part of the
\* quotient, as a Decimal
FloorDivInt(x, n) == D(TruncQuot(x, n * Scale))

\* utils.math_round: nearest integer, ties away from zero (as a Decimal)
math_round(x) ==
    IF x >= 0 THEN D((x + Scale \div 2) \div Scale)
              ELSE -D(((-x) + Scale \div 2) \div Scale)

\* Decimal.to_integral_value(rounding=ROUND_HALF_DOWN): nearest integer, ties
\* toward zero
RoundHalfDown(x) ==
    IF x >= 0 THEN D((x + Scale \div 2 - 1) \div Scale)
              ELSE -D(((-x) + Scale \div 2 - 1) \div Scale)

\* Cut.precision = D('0.01')
precision == Scale \div 100

---------------------------------------------------------------------------
(* Router_Bit *)

\* math.tan(math.radians(angle)) for the angles the model draws, to five
\* decimal places
Tan(angle) ==
    CASE angle = 7 -> 12278
      [] angle = 8 -> 14054
      [] angle = 14 -> 24933
      [] OTHER -> 0

\* quotient a / t of two Decimals to five places, digit by digit
RECURSIVE LongDiv(_, _, _)
LongDiv(r, t, n) ==
    IF n = 0 THEN 0
    ELSE ((r * 10) \div t) * (10 ^ (n - 1)) + LongDiv((r * 10) % t, t, n - 1)

DecDiv(a, t) == D(a \div t) + LongDiv(a % t, t, 5)

\* (variant) gap recomputed for a dovetail bit only, kept otherwise
reinit_keeps_gap(b) ==
    LET width_f == b.width
        tan == Tan(b.angle)
        raw == width_f - b.depth * tan
        midline == IF b.angle > 0 THEN RoundHalfDown(raw) ELSE width_f
    IN  [b EXCEPT !.width_f = width_f,
                  !.midline = midline,
                  !.gap = IF b.angle > 0 THEN raw - midline ELSE b.gap,
                  !.depth_0 = IF b.angle > 0 THEN DecDiv(width_f - midline, tan)
                              ELSE D(b.depth),
                  !.overhang = (width_f - midline) \div 2]

\* Router_Bit.reinit: the derived fields from width, depth, angle
reinit(b) ==
    LET width_f == b.width
        tan == Tan(b.angle)
        raw == width_f - b.depth * tan
        midline == IF b.angle > 0 THEN RoundHalfDown(raw) ELSE width_f
    IN  [b EXCEPT !.width_f = width_f,
                  !.midline = midline,
                  !.gap = IF b.angle > 0 THEN raw - midline ELSE 0,
                  !.depth_0 = IF b.angle > 0 THEN DecDiv(width_f - midline, tan)
                              ELSE D(b.depth),
                  !.overhang = (width_f - midline) \div 2]

\* Router_Bit.__init__
Router_Bit(width, depth, angle, bit_gentle) ==
    reinit([width |-> width, depth |-> depth, angle |-> angle,
            bit_gentle |-> bit_gentle,
            midline |-> 0, depth_0 |-> 0, width_f |-> width,
            overhang |-> width \div 2, gap |-> 0])

\* a cut list attribute that is None
None == [assigned |-> FALSE, cuts |-> <<>>]

\* a cut list attribute that holds a list
List(cs) == [assigned |-> TRUE, cuts |-> cs]

\* Board.__init__ (the fields pass synthesis, propagation and stack assembly
\* read)
Board(width) ==
    [width |-> width, active |-> TRUE, dheight |-> 0,
     bottom_cuts |-> None, top_cuts |-> None]

\* Cut.__init__
Cut(xmin, xmax) == [xmin |-> xmin, xmax |-> xmax, passes |-> <<>>]

---------------------------------------------------------------------------
(* Cut.validate *)

\* (variant) the fourth test rejecting every interior cut whose width differs
\* from the bit's, wider or narrower
TooNarrowOrWide(b, bd, c) ==
    /\ \/ (b.width_f - (c.xmax - c.xmin)) > precision
       \/ ((c.xmax - c.xmin) - b.width_f) > precision
    /\ c.xmin > 0
    /\ c.xmax < bd.width

\* (variant) the fourth test with the width comparison left out
NeverTooNarrow(b, bd, c) == FALSE

\* the fourth test of Cut.validate: an interior cut narrower than the bit
TooNarrow(b, bd, c) ==
    /\ (b.width_f - (c.xmax - c.xmin)) > precision
    /\ c.xmin > 0
    /\ c.xmax < bd.width

\* TRUE when Cut.validate raises
validate(b, bd, c) ==
    \/ c.xmin >= c.xmax
    \/ c.xmin < 0
    \/ c.xmax > bd.width
    \/ TooNarrow(b, bd, c)

---------------------------------------------------------------------------
(* Cut.make_router_passes *)

\* cutpass = int((bit.width_f * bit.bit_gentle) / 100)
CutPass(b) == TruncQuot(b.width_f * b.bit_gentle, 100 * Scale)

HalfWidth(b) == b.width_f \div 2

\* (variant) the seed offset by the whole bit width instead of half of it
SeedP0FullWidth(b, bd, c) ==
    IF c.xmax = bd.width /\ (c.xmax - c.xmin) > HalfWidth(b)
    THEN c.xmax + b.width_f - D(CutPass(b))
    ELSE math_round(c.xmax - HalfWidth(b))

\* the seed of the right-anchored pass p0
SeedP0(b, bd, c) ==
    IF c.xmax = bd.width /\ (c.xmax - c.xmin) > HalfWidth(b)
    THEN c.xmax + HalfWidth(b) - D(CutPass(b))
    ELSE math_round(c.xmax - HalfWidth(b))

\* whether p0 is recorded before the loop
RecordP0(b, bd, c, p0) ==
    /\ c.xmax <= bd.width
    /\ (c.xmin - (p0 - HalfWidth(b)) < precision \/ c.xmin = 0)

\* the locals and the pass list when the while loop is first reached
Seed(b, bd, c) ==
    LET p0 == SeedP0(b, bd, c)
    IN  [p0 |-> p0,
         p1 |-> math_round(c.xmin + HalfWidth(b)),
         remainder |-> c.xmax - c.xmin,
         passes |-> IF RecordP0(b, bd, c, p0) THEN <<ToInt(p0)>> ELSE <<>>,
         iter |-> 0]

\* (variant) recording p1 without the test p0 != p1
RecordP1AlsoEqual(b, bd, c, l) ==
    ((l.p1 + HalfWidth(b)) - c.xmax < precision \/ c.xmax = bd.width)

\* whether the loop body records p1
RecordP1(b, bd, c, l) ==
    /\ l.p0 # l.p1
    /\ ((l.p1 + HalfWidth(b)) - c.xmax < precision \/ c.xmax = bd.width)

\* one execution of the body of "while remainder > 0"
LoopBody(b, bd, c, l) ==
    LET remainder == l.p0 - l.p1
        rec == RecordP1(b, bd, c, l)
        p1a == IF rec THEN D(ToInt(l.p1)) ELSE l.p1
    IN  [p0 |-> l.p0,
         p1 |-> IF remainder <= FloorDivInt(b.width_f * 2, 3)
                THEN l.p0 - FloorDivInt(remainder, 2)
                ELSE p1a + D(CutPass(b)),
         remainder |-> IF remainder < FloorDivInt(b.width_f * 4, 5)
                       THEN 0 ELSE remainder,
         passes |-> IF rec THEN Append(l.passes, ToInt(p1a)) ELSE l.passes,
         iter |-> l.iter + 1]

\* (variant) the final error check with the right-hand test left out
GougesLeftOnly(b, bd, c, p) ==
    (c.xmin > 0 /\ (c.xmin - (D(p) - HalfWidth(b))) > precision)

\* the final error check: pass p cuts outside the cut on a closed side
Gouges(b, bd, c, p) ==
    \/ (c.xmin > 0 /\ (c.xmin - (D(p) - HalfWidth(b))) > precision)
    \/ (c.xmax < bd.width /\ ((D(p) + HalfWidth(b)) - c.xmax) > precision)

Sorted(ps) == SortSeq(ps, LAMBDA x, y : x < y)

\* iterations of the while loop the model follows before it gives up
MaxIter == 2 * MaxBoardWidth + 4

---------------------------------------------------------------------------
(* The call make_router_passes(bit, board) on one cut, statement by        *)
(* statement                                                               *)

Gentles == {1, 33, 100}
Angles == {0, 14}
BitWidths == {w \in 2..MaxBitWidth : w % 2 = 0}
BitDepth == 4

Bits == {Router_Bit(D(w), BitDepth, a, g) :
            w \in BitWidths, a \in Angles, g \in Gentles}

\* cut bounds: whole increments, and off-grid values: one within precision
\* of the grid, one that rounds down and one that rounds up
Fracs == {0, 4 * (Scale \div 1000), 3 * (Scale \div 10), 7 * (Scale \div 10)}
Grid == {D(i) + f : i \in (-1)..(MaxBoardWidth + 1), f \in Fracs}

NoLocals == [p0 |-> 0, p1 |-> 0, remainder |-> 0, passes |-> <<>>, iter |-> 0]

\* no setter called yet; no Joint_Geometry built yet
NoCall == [op |-> "none", parses |-> TRUE, value |-> 0]
NoGeometry == [built |-> FALSE, max_gap |-> 0, max_overlap |-> 0]

\* no origin, height, outline or record kept
NoOrigin == <<>>
NoHeight == <<>>
NoOutput == <<>>
NoFile == <<>>

InitPasses ==
    /\ bit \in Bits
    /\ board = Board(D(MaxBoardWidth))
    /\ \E xmin \in Grid, xmax \in Grid : cut = Cut(xmin, xmax)
    /\ loc = NoLocals
    /\ pc = "start"
    /\ err = "none"
    /\ call = NoCall /\ geom = NoGeometry
    /\ origin = NoOrigin /\ height = NoHeight /\ shape = NoOutput /\ file = NoFile
    /\ cuts = <<>> /\ adjCuts = <<>>
    /\ boards = <<>> /\ spacing = <<>> /\ last = <<>> /\ top = <<>>

\* self.validate(bit, board) and the statements up to the while loop
Call ==
    /\ pc = "start"
    /\ IF validate(bit, board, cut)
       THEN /\ pc' = "raised"
            /\ err' = "validate"
            /\ UNCHANGED <<cut, loc>>
       ELSE /\ loc' = Seed(bit, board, cut)
            /\ cut' = [cut EXCEPT !.passes = loc'.passes]
            /\ pc' = "loop"
            /\ err' = "none"
    /\ UNCHANGED <<bit, board, adjVars, stackVars, bitVars, geoVars>>

\* one test of "while remainder > 0" and, when it holds, one body
LoopIter ==
    /\ pc = "loop"
    /\ IF loc.remainder > 0
       THEN /\ loc.iter < MaxIter
            /\ loc' = LoopBody(bit, board, cut, loc)
            /\ cut' = [cut EXCEPT !.passes = loc'.passes]
            /\ pc' = "loop"
       ELSE /\ pc' = "check"
            /\ UNCHANGED <<cut, loc>>
    /\ UNCHANGED <<bit, board, err, adjVars, stackVars, bitVars, geoVars>>

\* sorted(self.passes) and the error check
SortAndCheck ==
    /\ pc = "check"
    /\ cut' = [cut EXCEPT !.passes = Sorted(cut.passes)]
    /\ IF \E i \in 1..Len(cut'.passes) : Gouges(bit, board, cut, cut'.passes[i])
       THEN pc' = "raised" /\ err' = "pass"
       ELSE pc' = "done" /\ err' = "none"
    /\ UNCHANGED <<bit, board, loc, adjVars, stackVars, bitVars, geoVars>>

NextPasses == Call \/ LoopIter \/ SortAndCheck

SpecPasses == InitPasses /\ [][NextPasses]_vars

---------------------------------------------------------------------------
(* adjoining_cuts *)

Max(a, b) == IF a >= b THEN a ELSE b
Min(a, b) == IF a <= b THEN a ELSE b

\* q_prec = D('0.0001'), in fixed-point units
q_prec == Scale \div 10000

\* Decimal.quantize(q_prec): to four decimal places, ties to even
Quantize(x) ==
    LET q == x \div q_prec
        r == x % q_prec
    IN  IF 2 * r < q_prec THEN q * q_prec
        ELSE IF 2 * r > q_prec THEN (q + 1) * q_prec
        ELSE IF q % 2 = 0 THEN q * q_prec ELSE (q + 1) * q_prec

\* the adjoining cut that includes the left edge, if any
AdjLeft(cs, b, bd) ==
    LET offset == b.width_f - b.midline
        right == cs[1].xmin + offset - D(bd.dheight)
    IN  IF cs[1].xmin > 0 /\ right - 0 >= D(bd.dheight)
        THEN <<Cut(0, Quantize(right))>>
        ELSE <<>>

\* (variant) the inner cuts started where the previous cut starts, not
\* where it ends
AdjInnerFromXmin(cs, b, bd) ==
    LET offset == b.width_f - b.midline
    IN  [i \in 1..(Len(cs) - 1) |->
            Cut(Max(0, cs[i].xmin - offset + D(bd.dheight)),
                Min(bd.width, cs[i + 1].xmin + offset - D(bd.dheight)))]

\* the adjoining cuts between consecutive input cuts
AdjInner(cs, b, bd) ==
    LET offset == b.width_f - b.midline
    IN  [i \in 1..(Len(cs) - 1) |->
            Cut(Max(0, cs[i].xmax - offset + D(bd.dheight)),
                Min(bd.width, cs[i + 1].xmin + offset - D(bd.dheight)))]

\* the adjoining cut that includes the right edge, if any
AdjRight(cs, b, bd) ==
    LET offset == b.width_f - b.midline
        left == cs[Len(cs)].xmax - offset + D(bd.dheight)
        right == bd.width
    IN  IF cs[Len(cs)].xmax < bd.width /\ right - left >= D(bd.dheight)
        THEN <<Cut(Max(0, left), Min(bd.width, right))>>
        ELSE <<>>

\* TRUE when adjoining_cuts raises IndexError (cuts[0] of an empty list)
AdjRaises(cs) == Len(cs) = 0

\* the list adjoining_cuts returns for a non-empty list
adjoining_cuts(cs, b, bd) ==
    AdjLeft(cs, b, bd) \o AdjInner(cs, b, bd) \o AdjRight(cs, b, bd)

---------------------------------------------------------------------------
(* One call adjoining_cuts(cuts, bit, board) *)

\* positions of cut bounds: whole increments, and one position that is not
\* a multiple of q_prec
StackGrid == {D(i) : i \in 0..MaxStackWidth} \cup {D(1) + 4 * (q_prec \div 10)}

\* the ordered lists of at most k cuts drawn from StackGrid that start at or
\* after lo and do not overlap (consecutive cuts may touch)
RECURSIVE CutLists(_, _)
CutLists(lo, k) ==
    IF k = 0 THEN {<<>>}
    ELSE {<<>>} \cup
         UNION {UNION {{<<Cut(x, y)>> \o rest : rest \in CutLists(y, k - 1)} :
                           y \in {g \in StackGrid : g > x}} :
                    x \in {g \in StackGrid : g >= lo}}

StackBits ==
    {Router_Bit(D(2), BitDepth, 0, 100), Router_Bit(D(2), BitDepth, 0, 33),
     Router_Bit(D(4), BitDepth, 14, 100), Router_Bit(D(2), BitDepth, 14, 100),
     Router_Bit(D(2), 2 * BitDepth, 14, 100)}

Dheights == {0, 1, 2}

InitAdjoin ==
    /\ bit \in StackBits
    /\ \E d \in Dheights : board = [Board(D(MaxStackWidth)) EXCEPT !.dheight = d]
    /\ cuts \in CutLists(0, MaxCuts)
    /\ adjCuts = <<>>
    /\ pc = "start"
    /\ err = "none"
    /\ call = NoCall /\ geom = NoGeometry
    /\ origin = NoOrigin /\ height = NoHeight /\ shape = NoOutput /\ file = NoFile
    /\ cut = Cut(0, 0) /\ loc = NoLocals
    /\ boards = <<>> /\ spacing = <<>> /\ last = <<>> /\ top = <<>>

Adjoin ==
    /\ pc = "start"
    /\ IF AdjRaises(cuts)
       THEN pc' = "raised" /\ err' = "index" /\ UNCHANGED adjCuts
       ELSE pc' = "done" /\ err' = "none"
            /\ adjCuts' = adjoining_cuts(cuts, bit, board)
    /\ UNCHANGED <<cuts, passVars, stackVars, bitVars, geoVars>>

\* a second call, adjoining_cuts(adjCuts, bit, board), on the list the first
\* call returned; its result is kept in last
AdjoinBack ==
    /\ pc = "done"
    /\ IF AdjRaises(adjCuts)
       THEN pc' = "raised" /\ err' = "index" /\ UNCHANGED last
       ELSE pc' = "back" /\ err' = "none"
            /\ last' = adjoining_cuts(adjCuts, bit, board)
    /\ UNCHANGED <<cuts, adjCuts, passVars, boards, spacing, top, bitVars, geoVars>>

NextAdjoin == Adjoin \/ AdjoinBack

SpecAdjoin == InitAdjoin /\ [][NextAdjoin]_vars

---------------------------------------------------------------------------
(* Cut.make_router_passes as one call, for the callers that make it on      *)
(* every cut of a list                                                     *)

\* the while loop run to its exit, or given up after MaxIter iterations
RECURSIVE RunLoop(_, _, _, _)
RunLoop(b, bd, c, l) ==
    IF l.remainder > 0 /\ l.iter < MaxIter
    THEN RunLoop(b, bd, c, LoopBody(b, bd, c, l))
    ELSE l

\* how the call ends ("ok", the raise statement "validate" or "pass", or
\* "hang" when the loop does not exit) and the cut it leaves behind
make_router_passes(b, bd, c) ==
    IF validate(b, bd, c) THEN [status |-> "validate", cut |-> c]
    ELSE LET l == RunLoop(b, bd, c, Seed(b, bd, c))
             sorted == Sorted(l.passes)
         IN  IF l.remainder > 0
             THEN [status |-> "hang", cut |-> [c EXCEPT !.passes = l.passes]]
             ELSE [status |-> IF \E i \in 1..Len(sorted) : Gouges(b, bd, c, sorted[i])
                              THEN "pass" ELSE "ok",
                   cut |-> [c EXCEPT !.passes = sorted]]

\* "for c in cuts: c.make_router_passes(bit, self)" from cut i on: the first
\* call that does not return ends the loop
RECURSIVE MakePasses(_, _, _, _)
MakePasses(cs, i, b, bd) ==
    IF i > Len(cs) THEN [status |-> "ok", cuts |-> cs]
    ELSE LET r == make_router_passes(b, bd, cs[i])
             done == [cs EXCEPT ![i] = r.cut]
         IN  IF r.status = "ok" THEN MakePasses(done, i + 1, b, bd)
             ELSE [status |-> r.status, cuts |-> done]

\* Board.set_bottom_cuts / Board.set_top_cuts: the passes of every cut, then
\* the assignment of the list
set_cuts(cs, b, bd) == MakePasses(cs, 1, b, bd)

---------------------------------------------------------------------------
(* cut_boards(boards, bit, spacing), statement by statement.  boards is   *)
(* indexed 0..3 as in the code.                                            *)

\* (variant) the boards[2] branch as an else-branch of the boards[3] test
DoubleRunsOnlyWithoutDoubleDouble(bs) == bs[2].active /\ ~bs[3].active

\* (variant) the boards[2] branch never taken
DoubleNeverRuns(bs) == FALSE

\* the test of the boards[2] branch
DoubleRuns(bs) == bs[2].active

\* (variant) the boards[3] branch taken whatever boards[3].active is
DoubleDoubleRunsAlways(bs) == TRUE

\* the test of the boards[3] branch
DoubleDoubleRuns(bs) == bs[3].active

\* where a call that did not return leaves the program
Ended(status) == IF status = "hang" THEN "hung" ELSE "raised"

\* utils.my_round(0.5 * depth) for an integer depth: int(round(f)), a tie
\* going to the even integer
my_round_half(depth) ==
    IF depth % 2 = 0 THEN depth \div 2
    ELSE IF ((depth - 1) \div 2) % 2 = 0 THEN (depth - 1) \div 2
    ELSE (depth + 1) \div 2

\* Board.set_height(bit) with dheight = None: the height it assigns
set_height(b, dheight) ==
    b.depth + (IF dheight > 0 THEN dheight ELSE my_round_half(b.depth))

\* My_Rectangle.__init__(self, 0, 0, width, 32) in Board.__init__
Origin0 == [xOrg |-> 0, yOrg |-> 0]

StackBoards ==
    {[i \in 0..3 |->
        [Board(D(MaxStackWidth)) EXCEPT
            !.active = IF i = 2 THEN a2 ELSE IF i = 3 THEN a3 ELSE TRUE,
            !.dheight = IF i = 2 THEN d2 ELSE IF i = 3 THEN d3 ELSE 0]] :
        a2 \in BOOLEAN, a3 \in BOOLEAN, d2 \in {0, 1}, d3 \in {0, 1}}

\* spacing.cuts: whole-increment cuts, at most two
SpacingCuts ==
    {l \in CutLists(0, MaxCuts - 1) :
        \A i \in 1..Len(l) : l[i].xmin % Scale = 0 /\ l[i].xmax % Scale = 0}

InitStack ==
    /\ bit \in StackBits
    /\ boards \in StackBoards
    /\ spacing \in SpacingCuts
    /\ last = <<>> /\ top = <<>>
    /\ pc = "b0"
    /\ err = "none"
    /\ call = NoCall /\ geom = NoGeometry
    /\ origin = [i \in 0..3 |-> Origin0]
    /\ height = [i \in 0..3 |-> set_height(bit, boards[i].dheight)]
    /\ shape = NoOutput /\ file = NoFile
    /\ board = Board(D(MaxStackWidth)) /\ cut = Cut(0, 0) /\ loc = NoLocals
    /\ cuts = <<>> /\ adjCuts = <<>>

\* the propagation step "top = adjoining_cuts(src, bit, bd); boards[i].set_top_cuts(top, bit)"
\* or "last = adjoining_cuts(src, bit, bd); boards[i].set_bottom_cuts(last, bit)"
Propagate(src, bd, i, edge, next) ==
    IF AdjRaises(src)
    THEN /\ pc' = "raised" /\ err' = "index"
         /\ UNCHANGED <<boards, last, top>>
    ELSE LET adj == adjoining_cuts(src, bit, bd)
             r == set_cuts(adj, bit, boards[i])
         IN  /\ IF edge = "top"
                THEN top' = r.cuts /\ UNCHANGED last
                ELSE last' = r.cuts /\ UNCHANGED top
             /\ IF r.status = "ok"
                THEN /\ boards' = IF edge = "top"
                                  THEN [boards EXCEPT ![i].top_cuts = List(r.cuts)]
                                  ELSE [boards EXCEPT ![i].bottom_cuts = List(r.cuts)]
                     /\ pc' = next /\ err' = "none"
                ELSE /\ pc' = Ended(r.status) /\ err' = r.status
                     /\ UNCHANGED boards

\* last = spacing.cuts; boards[0].set_bottom_cuts(last, bit)
SetTopBoard ==
    /\ pc = "b0"
    /\ LET r == set_cuts(spacing, bit, boards[0])
       IN  /\ spacing' = r.cuts
           /\ last' = r.cuts
           /\ IF r.status = "ok"
              THEN /\ boards' = [boards EXCEPT ![0].bottom_cuts = List(r.cuts)]
                   /\ pc' = "b3top" /\ err' = "none"
              ELSE /\ pc' = Ended(r.status) /\ err' = r.status
                   /\ UNCHANGED boards
    /\ UNCHANGED <<top, passVars, adjVars, bitVars, geoVars>>

\* if boards[3].active: top = adjoining_cuts(last, bit, boards[0]);
\* boards[3].set_top_cuts(top, bit)
DoubleDoubleTop ==
    /\ pc = "b3top"
    /\ IF DoubleDoubleRuns(boards)
       THEN Propagate(last, boards[0], 3, "top", "b3bottom")
       ELSE pc' = "b2top" /\ UNCHANGED <<boards, last, top, err>>
    /\ UNCHANGED <<spacing, passVars, adjVars, bitVars, geoVars>>

\* last = adjoining_cuts(top, bit, boards[3]); boards[3].set_bottom_cuts(last, bit)
DoubleDoubleBottom ==
    /\ pc = "b3bottom"
    /\ Propagate(top, boards[3], 3, "bottom", "b2top")
    /\ UNCHANGED <<spacing, passVars, adjVars, bitVars, geoVars>>

\* if boards[2].active: top = adjoining_cuts(last, bit, boards[0]);
\* boards[2].set_top_cuts(top, bit)
DoubleTop ==
    /\ pc = "b2top"
    /\ IF DoubleRuns(boards)
       THEN Propagate(last, boards[0], 2, "top", "b2bottom")
       ELSE pc' = "b1top" /\ UNCHANGED <<boards, last, top, err>>
    /\ UNCHANGED <<spacing, passVars, adjVars, bitVars, geoVars>>

\* last = adjoining_cuts(top, bit, boards[2]); boards[2].set_bottom_cuts(last, bit)
DoubleBottom ==
    /\ pc = "b2bottom"
    /\ Propagate(top, boards[2], 2, "bottom", "b1top")
    /\ UNCHANGED <<spacing, passVars, adjVars, bitVars, geoVars>>

\* top = adjoining_cuts(last, bit, boards[1]); boards[1].set_top_cuts(top, bit)
SetBottomBoard ==
    /\ pc = "b1top"
    /\ Propagate(last, boards[1], 1, "top", "done")
    /\ UNCHANGED <<spacing, passVars, adjVars, bitVars, geoVars>>

\* (variant) max_overlap set whatever the sign of the gap
compute_fit_both(b) ==
    [built |-> TRUE,
     max_gap |-> IF b.gap > 0 THEN b.gap ELSE 0,
     max_overlap |-> -b.gap]

\* Joint_Geometry.compute_fit
compute_fit(b) ==
    [built |-> TRUE,
     max_gap |-> IF b.gap > 0 THEN b.gap ELSE 0,
     max_overlap |-> IF b.gap > 0 THEN 0 ELSE -b.gap]

---------------------------------------------------------------------------
(* Joint_Geometry.__init__ after cut_boards has returned: the origins of   *)
(* the boards, then compute_fit.  Origins and heights are Python ints.     *)

\* margins.sep, margins.left + template.margin, margins.bottom +
\* template.height: the values the layout is given
Seps == {1, 3}
Lefts == {2}
TemplateTops == {5}

\* My_Rectangle.yT of board i
yT(i) == origin[i].yOrg + height[i]

\* boards[i].set_origin(x, y); y = boards[i].yT() + sep
Place(i, sep, next) ==
    /\ origin' = [origin EXCEPT ![i] = [xOrg |-> loc.x, yOrg |-> loc.y]]
    /\ loc' = [loc EXCEPT !.y = loc.y + height[i] + sep]
    /\ pc' = next

\* board_sep, the template rectangles, x and y
Layout ==
    /\ pc = "done"
    /\ \E sep \in Seps, left \in Lefts, ttop \in TemplateTops, show_fit \in BOOLEAN :
           loc' = [board_sep |-> IF show_fit THEN -bit.depth ELSE sep,
                   sep |-> sep, x |-> left, y |-> ttop + sep]
    /\ pc' = "o1"
    /\ UNCHANGED <<bit, board, cut, err, adjVars, stackVars, bitVars, geoVars>>

\* self.boards[1].set_origin(x, y)
PlaceBottomBoard ==
    /\ pc = "o1"
    /\ Place(1, loc.board_sep, "o2")
    /\ UNCHANGED <<bit, board, cut, err, adjVars, stackVars, bitVars, height, shape, file>>

\* if self.boards[2].active: self.boards[2].set_origin(x, y)
PlaceDouble ==
    /\ pc = "o2"
    /\ IF boards[2].active
       THEN Place(2, loc.board_sep, "o3")
       ELSE pc' = "o0" /\ UNCHANGED <<origin, loc>>
    /\ UNCHANGED <<bit, board, cut, err, adjVars, stackVars, bitVars, height, shape, file>>

\* (inside the boards[2] block) if self.boards[3].active:
\* self.boards[3].set_origin(x, y)
PlaceDoubleDouble ==
    /\ pc = "o3"
    /\ IF boards[3].active
       THEN Place(3, loc.board_sep, "o0")
       ELSE pc' = "o0" /\ UNCHANGED <<origin, loc>>
    /\ UNCHANGED <<bit, board, cut, err, adjVars, stackVars, bitVars, height, shape, file>>

\* self.boards[0].set_origin(x, y); y = self.boards[0].yT() + margins.sep
PlaceTopBoard ==
    /\ pc = "o0"
    /\ Place(0, loc.sep, "placed")
    /\ UNCHANGED <<bit, board, cut, err, adjVars, stackVars, bitVars, height, shape, file>>

\* self.compute_fit()
FitStack ==
    /\ pc = "placed"
    /\ geom' = compute_fit(bit)
    /\ pc' = "built"
    /\ UNCHANGED <<bit, board, cut, loc, err, adjVars, stackVars, call, geoVars>>

NextStack ==
    \/ SetTopBoard
    \/ DoubleDoubleTop
    \/ DoubleDoubleBottom
    \/ DoubleTop
    \/ DoubleBottom
    \/ SetBottomBoard
    \/ Layout
    \/ PlaceBottomBoard
    \/ PlaceDouble
    \/ PlaceDoubleDouble
    \/ PlaceTopBoard
    \/ FitStack

SpecStack == InitStack /\ [][NextStack]_vars

---------------------------------------------------------------------------
(* The Router_Bit setters and Joint_Geometry.compute_fit.  A setter is     *)
(* given a string; s.parses says whether units.string_to_float /           *)
(* units.string_to_increments returns for it, and s.value is the number it *)
(* returns (a Decimal for a width, an integer for a depth, an angle in     *)
(* degrees or a gentleness in percent).  A setter is a function from the   *)
(* bit and the string to the bit it leaves and whether it raised           *)
(* Router_Exception.                                                       *)

Raised(b) == [bit |-> b, raised |-> TRUE]
Returns(b) == [bit |-> b, raised |-> FALSE]

\* Router_Bit.set_gentle_from_string
set_gentle_from_string(b, s) ==
    IF ~s.parses \/ s.value < 1 \/ s.value > 100 THEN Raised(b)
    ELSE Returns(reinit([b EXCEPT !.bit_gentle = s.value]))

\* Router_Bit.set_width_from_string
set_width_from_string(b, s) ==
    IF ~s.parses THEN Raised(b)
    ELSE IF s.value <= 0 THEN Raised(b)
    ELSE LET halfwidth == FloorDivInt(s.value, 2)
         IN  IF (2 * halfwidth # s.value \/ s.value % Scale # 0) /\ b.angle = 0
             THEN Raised(b)
             ELSE Returns(reinit([b EXCEPT !.width = s.value]))

\* the test "(self.width / 3.5) / tan(angle) <= depth" of a dovetail bit
DepthTooLarge(width, angle, depth) ==
    angle > 0 /\ 10 * width <= 35 * depth * Tan(angle)

\* Router_Bit.set_depth_from_string
set_depth_from_string(b, s) ==
    IF ~s.parses THEN Raised(b)
    ELSE IF DepthTooLarge(b.width, b.angle, s.value) THEN Raised(b)
    ELSE IF s.value <= 0 THEN Raised(b)
    ELSE Returns(reinit([b EXCEPT !.depth = s.value]))

\* (variant) the angle assigned and the derived fields recomputed before
\* the sign of the angle is tested
set_angle_then_test(b, s) ==
    IF ~s.parses THEN Raised(b)
    ELSE IF s.value = 0 /\ b.width_f % Scale # 0 THEN Raised(b)
    ELSE IF s.value < 0 THEN Raised(reinit([b EXCEPT !.angle = s.value]))
    ELSE Returns(reinit([b EXCEPT !.angle = s.value]))

\* Router_Bit.set_angle_from_string
set_angle_from_string(b, s) ==
    IF ~s.parses THEN Raised(b)
    ELSE IF s.value = 0 /\ b.width_f % Scale # 0 THEN Raised(b)
    ELSE IF s.value < 0 THEN Raised(b)
    ELSE Returns(reinit([b EXCEPT !.angle = s.value]))

\* the strings given to the setters: one that does not parse, and one for
\* each value
Strings(values) ==
    {[parses |-> TRUE, value |-> v] : v \in values}
        \cup {[parses |-> FALSE, value |-> 0]}

WidthStrings ==
    Strings({D(w) : w \in 0..(MaxBitWidth - 2)} \cup {D(2) + Scale \div 2})
DepthStrings == Strings({0, BitDepth \div 2, BitDepth, BitDepth + 1, 2 * BitDepth})
HeightStrings == Strings({0, 1})
AngleStrings == Strings({-1, 0, 7, 14})
GentleStrings == Strings({0, 33, 100, 101})

\* the bits the setters start from: a straight bit of even width, and a
\* dovetail bit whose depth is within the maximum for its width and angle
InitBit ==
    /\ bit \in {Router_Bit(D(2), BitDepth, 0, 33),
                Router_Bit(D(4), BitDepth \div 2, 14, 33)}
    /\ call = NoCall /\ geom = NoGeometry
    /\ origin = NoOrigin /\ height = set_height(bit, 0) /\ shape = NoOutput /\ file = NoFile
    /\ pc = "idle"
    /\ err = "none"
    /\ board = Board(D(MaxStackWidth)) /\ cut = Cut(0, 0) /\ loc = NoLocals
    /\ cuts = <<>> /\ adjCuts = <<>>
    /\ boards = <<>> /\ spacing = <<>> /\ last = <<>> /\ top = <<>>

\* one call of a setter: r is what the setter leaves
Called(op, s, r) ==
    /\ call' = [op |-> op, parses |-> s.parses, value |-> s.value]
    /\ bit' = r.bit
    /\ err' = IF r.raised THEN "Router_Exception" ELSE "none"
    /\ UNCHANGED <<geom, pc, board, cut, loc, adjVars, stackVars, geoVars>>

SetGentle == \E s \in GentleStrings : Called("set_gentle", s, set_gentle_from_string(bit, s))
SetWidth == \E s \in WidthStrings : Called("set_width", s, set_width_from_string(bit, s))
SetDepth == \E s \in DepthStrings : Called("set_depth", s, set_depth_from_string(bit, s))
SetAngle == \E s \in AngleStrings : Called("set_angle", s, set_angle_from_string(bit, s))

\* Joint_Geometry.__init__ reaching self.compute_fit()
ComputeFit ==
    /\ geom' = compute_fit(bit)
    /\ call' = [op |-> "compute_fit", parses |-> TRUE, value |-> 0]
    /\ err' = "none"
    /\ UNCHANGED <<bit, pc, board, cut, loc, adjVars, stackVars, geoVars>>

\* Board.set_height(bit), as Board.__init__ and the callers that refresh a
\* board call it
BoardSetHeight ==
    /\ height' = set_height(bit, board.dheight)
    /\ call' = [op |-> "set_height", parses |-> TRUE, value |-> 0]
    /\ err' = "none"
    /\ UNCHANGED <<bit, geom, pc, board, cut, loc, adjVars, stackVars,
                   origin, shape, file>>

\* Board.set_height_from_string(bit, s)
BoardSetHeightFromString ==
    /\ \E s \in HeightStrings :
           /\ call' = [op |-> "set_height_from_string", parses |-> s.parses,
                       value |-> s.value]
           /\ IF ~s.parses \/ s.value <= 0
              THEN err' = "Router_Exception" /\ UNCHANGED <<board, height>>
              ELSE /\ err' = "none"
                   /\ board' = [board EXCEPT !.dheight = s.value]
                   /\ height' = bit.depth + s.value
    /\ UNCHANGED <<bit, geom, pc, cut, loc, adjVars, stackVars, origin, shape, file>>

NextBit == SetGentle \/ SetWidth \/ SetDepth \/ SetAngle \/ ComputeFit

\* the bit's depth setter together with the board's height setters
NextBoard == SetDepth \/ BoardSetHeight \/ BoardSetHeightFromString

SpecBoard == InitBit /\ [][NextBoard]_vars

SpecBit == InitBit /\ [][NextBit]_vars

---------------------------------------------------------------------------
(* Board._do_cuts, do_all_cuts, perimeter and triangulate.  A coordinate   *)
(* list is a sequence of points [x, y] in fixed-point units; the origin    *)
(* and the height of a board are Python ints.  A vertex index is counted   *)
(* from 0 as in the code: vertex k is element k + 1 of the sequence.       *)

Pt(x, y) == [x |-> x, y |-> y]

\* My_Rectangle.xL, xR, yB and yT of a board at origin o
xL(o) == D(o.xOrg)
xR(o, bd) == D(o.xOrg) + bd.width
yB(o) == D(o.yOrg)
yTopOf(o, h) == D(o.yOrg) + D(h)

\* the points the body of the loop of _do_cuts appends for cut c; x0 is x[0]
CutPoints(b, bd, o, c, x0, y_nocut, y_cut) ==
    LET halfgap == b.gap \div 2
        overhang == 2 * b.overhang
    IN  (IF c.xmin > 0
         THEN <<Pt(c.xmin + x0 + overhang - halfgap, y_nocut)>> ELSE <<>>)
            \o <<Pt(c.xmin + xL(o) - halfgap, y_cut),
                 Pt(c.xmax + xL(o) + halfgap, y_cut)>>
            \o (IF c.xmax < bd.width
                THEN <<Pt(c.xmax + xL(o) - overhang + halfgap, y_nocut)>>
                ELSE <<>>)

\* the loop of _do_cuts from cut i on; acc is the list so far
RECURSIVE DoCutsFrom(_, _, _, _, _, _, _, _)
DoCutsFrom(b, bd, o, cs, i, acc, y_nocut, y_cut) ==
    IF i > Len(cs) THEN acc
    ELSE DoCutsFrom(b, bd, o, cs, i + 1,
                    acc \o CutPoints(b, bd, o, cs[i],
                                     IF acc = <<>> THEN 0 ELSE acc[1].x,
                                     y_nocut, y_cut),
                    y_nocut, y_cut)

\* Board._do_cuts for a non-empty list
do_cuts(b, bd, o, cs, y_nocut, y_cut) ==
    LET start == IF cs[1].xmin > 0 THEN <<Pt(xL(o), y_nocut)>> ELSE <<>>
    IN  DoCutsFrom(b, bd, o, cs, 1, start, y_nocut, y_cut)
            \o (IF cs[Len(cs)].xmax < bd.width
                THEN <<Pt(xL(o) + bd.width, y_nocut)>> ELSE <<>>)

\* Board.do_all_cuts: the top and the bottom edge, each left to right
do_all_cuts(b, bd, o, h) ==
    [top |-> IF ~bd.top_cuts.assigned
             THEN <<Pt(xL(o), yTopOf(o, h)), Pt(xR(o, bd), yTopOf(o, h))>>
             ELSE do_cuts(b, bd, o, bd.top_cuts.cuts,
                          yTopOf(o, h), yTopOf(o, h) - D(b.depth)),
     bottom |-> IF ~bd.bottom_cuts.assigned
                THEN <<Pt(xL(o), yB(o)), Pt(xR(o, bd), yB(o))>>
                ELSE do_cuts(b, bd, o, bd.bottom_cuts.cuts,
                             yB(o), yB(o) + D(b.depth))]

\* list.reverse
Reverse(s) == [i \in 1..Len(s) |-> s[Len(s) + 1 - i]]

\* Board.perimeter
perimeter(b, bd, o, h) ==
    LET e == do_all_cuts(b, bd, o, h)
        merged == e.top \o Reverse(e.bottom)
    IN  merged \o <<merged[1]>>

\* TRUE when indexing a list of length n with i raises IndexError
OutOfRange(n, i) == i >= n \/ i < -n

\* the element s[i] of a Python list
At(s, i) == IF i < 0 THEN s[Len(s) + i + 1] ELSE s[i + 1]

\* the assignment s[i] = e to a Python list
Put(s, i, e) == [s EXCEPT ![IF i < 0 THEN Len(s) + i + 1 ELSE i + 1] = e]

\* one iteration of the loop of triangulate.  ie is the running index on
\* the edge that has the cuts (ibot in the first branch, itop in the
\* second), io the one on the other edge, whose y is y_flat.
TriStep(bd, o, cs, xc, y_flat, edge, s) ==
    IF OutOfRange(Len(xc), s.ie) \/ OutOfRange(Len(s.v), s.ie)
    THEN [s EXCEPT !.raised = "IndexError"]
    ELSE LET v1 == Put(s.v, s.ie, At(xc, s.ie))
             v2 == IF s.ie < Len(xc) - 1
                   THEN Put(v1, s.ie + 1, At(xc, s.ie + 1)) ELSE v1
             ie == s.ie
             io == s.io
         IN  IF s.incut
             THEN IF OutOfRange(Len(cs), s.ic) \/ OutOfRange(Len(v2), io)
                  THEN [s EXCEPT !.raised = "IndexError"]
                  ELSE [s EXCEPT
                          !.v = Put(v2, io, Pt(At(cs, s.ic).xmax + xL(o), y_flat)),
                          !.ic = s.ic + 1,
                          !.t = s.t \o
                                (IF edge = "bottom"
                                 THEN << <<ie - 1, ie, io>>, <<ie - 1, io, io + 1>> >>
                                 ELSE << <<ie - 1, ie, io + 1>>, <<ie, io, io + 1>> >>),
                          !.incut = FALSE, !.ie = ie + 2, !.io = io - 1]
             ELSE IF OutOfRange(Len(v2), io)
                  THEN [s EXCEPT !.raised = "IndexError"]
                  ELSE [s EXCEPT
                          !.v = Put(v2, io,
                                    IF s.ic < Len(cs)
                                    THEN Pt(At(cs, s.ic).xmin + xL(o), y_flat)
                                    ELSE Pt(xR(o, bd), y_flat)),
                          !.t = s.t \o
                                (IF edge = "bottom"
                                 THEN << <<ie - 1, ie, ie + 1>>,
                                         <<ie - 1, ie + 1, ie - 2>>,
                                         <<ie - 2, ie + 1, io>>,
                                         <<ie - 2, io, io + 1>> >>
                                 ELSE << <<ie - 2, ie + 1, ie>>,
                                         <<ie - 2, ie, ie - 1>>,
                                         <<ie + 1, ie - 2, io + 1>>,
                                         <<ie + 1, io + 1, io>> >>),
                          !.incut = TRUE, !.ie = ie + 2, !.io = io - 1]

\* "for _ in range(nintervals)": the iterations that are left
RECURSIVE TriLoop(_, _, _, _, _, _, _, _)
TriLoop(bd, o, cs, xc, y_flat, edge, s, n) ==
    IF n = 0 \/ s.raised # "none" THEN s
    ELSE TriLoop(bd, o, cs, xc, y_flat, edge,
                 TriStep(bd, o, cs, xc, y_flat, edge, s), n - 1)

\* one branch of triangulate: the board has cuts cs on one edge only, whose
\* uncut y is y_edge and routed y is y_cut; y_flat is the y of the other edge
TriEdge(b, bd, o, cs, y_edge, y_cut, y_flat, edge) ==
    LET lead == cs[1].xmin > 0
        trail == cs[Len(cs)].xmax < bd.width
        xc0 == do_cuts(b, bd, o, cs, y_edge, y_cut)
        xc == (IF lead THEN <<Pt(xc0[1].x, y_cut)>> ELSE <<>>)
                  \o xc0
                  \o (IF trail THEN <<Pt(bd.width, y_cut)>> ELSE <<>>)
        nintervals == 2 * Len(cs) - 1 + (IF lead THEN 1 ELSE 0)
                          + (IF trail THEN 1 ELSE 0)
        ntotal == nintervals + 1 + Len(xc)
        v0 == [i \in 1..ntotal |->
                  IF i <= 2 THEN xc[i] ELSE Pt(xL(o), y_flat)]
        s == TriLoop(bd, o, cs, xc, y_flat, edge,
                     [v |-> v0, t |-> <<>>, ic |-> 0, ie |-> 2,
                      io |-> ntotal - 2, incut |-> ~lead, raised |-> "none"],
                     nintervals)
    IN  IF s.raised # "none"
        THEN [raised |-> s.raised, v |-> <<>>, t |-> <<>>]
        ELSE [raised |-> "none", v |-> s.v, t |-> s.t]

\* Board.triangulate.  With a list on both edges neither branch is taken
\* and (0, []) is returned: no vertex list, no triangle.  With no list at
\* all the first branch takes len(None).
triangulate(b, bd, o, h) ==
    IF ~bd.top_cuts.assigned
    THEN IF ~bd.bottom_cuts.assigned
         THEN [raised |-> "TypeError", v |-> <<>>, t |-> <<>>]
         ELSE TriEdge(b, bd, o, bd.bottom_cuts.cuts,
                      yB(o), yB(o) + D(b.depth), yTopOf(o, h), "bottom")
    ELSE IF ~bd.bottom_cuts.assigned
    THEN TriEdge(b, bd, o, bd.top_cuts.cuts,
                 yTopOf(o, h), yTopOf(o, h) - D(b.depth), yB(o), "top")
    ELSE [raised |-> "none", v |-> <<>>, t |-> <<>>]

\* the bits the outlines are drawn with: a straight bit and two dovetail
\* bits, whose gap is not zero
OutlineBits ==
    {Router_Bit(D(2), BitDepth, 0, 100), Router_Bit(D(4), BitDepth, 14, 100),
     Router_Bit(D(2), BitDepth, 14, 100)}

\* the lists Board.set_top_cuts / set_bottom_cuts can assign: non-empty,
\* every cut passed against the board
OutlineCuts(b) ==
    {set_cuts(l, b, Board(D(MaxStackWidth))).cuts :
        l \in {m \in SpacingCuts :
                  m # <<>> /\ set_cuts(m, b, Board(D(MaxStackWidth))).status = "ok"}}

\* the boards an outline is asked of: a list on the top edge, on the bottom
\* edge, or (as the boards between the two outer ones) on both, the top one
\* adjoining the bottom one
OutlineBoards(b) ==
    LET bd == Board(D(MaxStackWidth))
    IN  {[bd EXCEPT !.top_cuts = List(l)] : l \in OutlineCuts(b)}
            \cup {[bd EXCEPT !.bottom_cuts = List(l)] : l \in OutlineCuts(b)}
            \cup {[bd EXCEPT !.bottom_cuts = List(l),
                             !.top_cuts = List(set_cuts(adjoining_cuts(l, b, bd), b, bd).cuts)] :
                     l \in {m \in OutlineCuts(b) :
                               /\ adjoining_cuts(m, b, bd) # <<>>
                               /\ set_cuts(adjoining_cuts(m, b, bd), b, bd).status = "ok"}}

\* the displacements set_origin is given
Moves == {[dx |-> 2, dy |-> 3]}

\* how many outlines of one board are kept
MaxOutputs == 2

InitOutline ==
    /\ bit \in OutlineBits
    /\ board \in OutlineBoards(bit)
    /\ origin = Origin0
    /\ height = set_height(bit, board.dheight)
    /\ shape = <<>>
    /\ pc = "fresh"
    /\ err = "none"
    /\ call = NoCall /\ geom = NoGeometry /\ file = NoFile
    /\ cut = Cut(0, 0) /\ loc = NoLocals
    /\ cuts = <<>> /\ adjCuts = <<>>
    /\ boards = <<>> /\ spacing = <<>> /\ last = <<>> /\ top = <<>>

\* board.set_origin(xOrg + dx, yOrg + dy)
SetOrigin ==
    /\ pc = "fresh"
    /\ \E m \in Moves :
           origin' = [xOrg |-> origin.xOrg + m.dx, yOrg |-> origin.yOrg + m.dy]
    /\ pc' = "moved"
    /\ UNCHANGED <<bit, board, cut, loc, err, adjVars, stackVars, bitVars,
                   height, shape, file>>

\* board.perimeter(bit): what it returned is kept with the origin it was
\* called at
Perimeter ==
    /\ Len(shape) < MaxOutputs
    /\ shape' = Append(shape, [op |-> "perimeter", at |-> origin,
                               raised |-> "none",
                               v |-> perimeter(bit, board, origin, height),
                               t |-> <<>>])
    /\ UNCHANGED <<bit, board, cut, loc, pc, err, adjVars, stackVars, bitVars,
                   origin, height, file>>

\* board.triangulate(bit)
Triangulate ==
    /\ Len(shape) < MaxOutputs
    /\ LET r == triangulate(bit, board, origin, height)
       IN  shape' = Append(shape, [op |-> "triangulate", at |-> origin,
                                   raised |-> r.raised, v |-> r.v, t |-> r.t])
    /\ UNCHANGED <<bit, board, cut, loc, pc, err, adjVars, stackVars, bitVars,
                   origin, height, file>>

NextOutline == SetOrigin \/ Perimeter \/ Triangulate

SpecOutline == InitOutline /\ [][NextOutline]_vars

---------------------------------------------------------------------------
(* serialize / unserialize (src/serialize.py).  The pickle is a sequence   *)
(* of bytes, each an integer.  A text is the sequence of the codes of its  *)
(* characters.  A code of Wide or more stands for the run of bytes of an   *)
(* object that holds no line break (a Decimal, the dict sp.params, the     *)
(* list sp.cuts).  The strings dumped are distinct objects, so the pickler *)
(* writes no memo reference.  bit.width is a Python int (Router_Bit takes  *)
(* D(repr(width))), written as the int it is.                              *)

CR == 13
LF == 10

\* pickle opcodes (protocol 4)
PROTO == 128
FRAME == 149
BININT1 == 75
NEWTRUE == 136
NEWFALSE == 137
SHORT_BINUNICODE == 140
MEMOIZE == 148
STOP == 46

Wide == 256
Obj(x) == Wide + x

\* the bytes of one p.dump: the protocol header, a frame header when the
\* body has four bytes or more, the body
Framed(body) ==
    <<PROTO, 4>>
        \o (IF Len(body) >= 4 THEN <<FRAME, Len(body), 0, 0, 0, 0, 0, 0, 0>> ELSE <<>>)
        \o body

\* p.dump of an int in 0..255, a bool, a str and an object
dump_int(v) == Framed(<<BININT1, v, STOP>>)
dump_bool(b) == Framed(<<IF b THEN NEWTRUE ELSE NEWFALSE, STOP>>)
dump_str(s) == Framed(<<SHORT_BINUNICODE, Len(s)>> \o s \o <<MEMOIZE, STOP>>)
dump_obj(x) == <<PROTO, 4, Obj(x), STOP>>

\* binascii.b2a_qp(data) in text mode.  The data uses CRLF line ends when
\* its first LF follows a CR; every line break of the data, LF or CR LF,
\* is then written as CR LF, and otherwise as LF.  Every other byte is
\* written so that a2b_qp gives it back, and stands for itself here.

\* what the scan writes on account of byte i: the line break at an LF,
\* nothing at the CR of a CR LF (the pair is one line break), else the byte
QpByte(data, i, crlf) ==
    IF data[i] = LF THEN (IF crlf THEN <<CR, LF>> ELSE <<LF>>)
    ELSE IF data[i] = CR /\ i < Len(data) /\ data[i + 1] = LF THEN <<>>
    ELSE <<data[i]>>

\* the output for bytes lo..hi
RECURSIVE QpLines(_, _, _, _)
QpLines(data, lo, hi, crlf) ==
    IF lo > hi THEN <<>>
    ELSE IF lo = hi THEN QpByte(data, lo, crlf)
    ELSE QpLines(data, lo, (lo + hi) \div 2, crlf)
             \o QpLines(data, (lo + hi) \div 2 + 1, hi, crlf)

b2a_qp(data) ==
    LET lfs == {i \in 1..Len(data) : data[i] = LF}
        crlf == lfs # {} /\
                LET p == CHOOSE i \in lfs : \A j \in lfs : i <= j
                IN  p > 1 /\ data[p - 1] = CR
    IN  QpLines(data, 1, Len(data), crlf)

\* binascii.a2b_qp(s): the bytes the text stands for
a2b_qp(s) == s

\* the first four characters of sp.description for the three spacings
Equa == <<69, 113, 117, 97>>
Vari == <<86, 97, 114, 105>>
Edit == <<69, 100, 105, 116>>

\* serialize(bit, boards, sp, config, description); version is utils.VERSION
\* of the program that writes
RECURSIVE DumpBoards(_, _)
DumpBoards(bs, i) ==
    IF i > Len(bs) THEN <<>>
    ELSE dump_obj(bs[i].width) \o dump_int(bs[i].height) \o dump_str(bs[i].wood)
             \o dump_bool(bs[i].active) \o dump_int(bs[i].dheight)
             \o DumpBoards(bs, i + 1)

serialize(version, b, bs, sp, description) ==
    LET sp_type == SubSeq(sp.description, 1, 4)
    IN  b2a_qp(dump_str(version)
                   \o dump_bool(sp.metric) \o dump_int(sp.num_increments)
                   \o dump_int(b.width \div Scale) \o dump_int(b.depth) \o dump_int(b.angle)
                   \o dump_int(Len(bs))
                   \o DumpBoards(bs, 1)
                   \o dump_str(sp_type)
                   \o (IF sp_type = Edit THEN dump_obj(sp.cuts) ELSE dump_obj(sp.params))
                   \o dump_str(description))

\* u.load() failing with exception e
LoadRaises(e) == [raised |-> e, next |-> 0, val |-> <<>>]

\* u.load() from byte p on: the unpickler runs the opcodes up to STOP; tos
\* is the value on its stack (has says whether there is one)
RECURSIVE Unpickle(_, _, _, _)
Unpickle(s, p, has, tos) ==
    IF p > Len(s)
    THEN LoadRaises(IF has THEN "UnpicklingError" ELSE "EOFError")
    ELSE IF s[p] = PROTO
    THEN IF p + 1 > Len(s) THEN LoadRaises("UnpicklingError")
         ELSE Unpickle(s, p + 2, has, tos)
    ELSE IF s[p] = FRAME
    THEN IF p + 8 > Len(s) \/ p + 8 + s[p + 1] > Len(s)
         THEN LoadRaises("UnpicklingError")
         ELSE Unpickle(s, p + 9, has, tos)
    ELSE IF s[p] = BININT1
    THEN IF p + 1 > Len(s) THEN LoadRaises("UnpicklingError")
         ELSE Unpickle(s, p + 2, TRUE, s[p + 1])
    ELSE IF s[p] \in {NEWTRUE, NEWFALSE}
    THEN Unpickle(s, p + 1, TRUE, s[p] = NEWTRUE)
    ELSE IF s[p] = SHORT_BINUNICODE
    THEN IF p + 1 > Len(s) \/ p + 1 + s[p + 1] > Len(s)
         THEN LoadRaises("UnpicklingError")
         ELSE LET text == SubSeq(s, p + 2, p + 1 + s[p + 1])
              IN  IF \E k \in 1..Len(text) : text[k] >= 128
                  THEN LoadRaises("UnicodeDecodeError")
                  ELSE Unpickle(s, p + 2 + s[p + 1], TRUE, text)
    ELSE IF s[p] = MEMOIZE
    THEN IF has THEN Unpickle(s, p + 1, has, tos)
         ELSE LoadRaises("UnpicklingError")
    ELSE IF s[p] = STOP
    THEN IF has THEN [raised |-> "none", next |-> p + 1, val |-> tos]
         ELSE LoadRaises("UnpicklingError")
    ELSE IF s[p] >= Wide
    THEN Unpickle(s, p + 1, TRUE, s[p] - Wide)
    ELSE LoadRaises("UnpicklingError")

load(s, p) == Unpickle(s, p, FALSE, 0)

\* k calls of u.load() in a row from byte p on: the values loaded, or the
\* exception of the first call that raises
RECURSIVE Loads(_, _, _)
Loads(s, p, k) ==
    IF k = 0 THEN [raised |-> "none", next |-> p, vals |-> <<>>]
    ELSE LET r == load(s, p)
         IN  IF r.raised # "none"
             THEN [raised |-> r.raised, next |-> 0, vals |-> <<>>]
             ELSE LET rest == Loads(s, r.next, k - 1)
                  IN  [rest EXCEPT !.vals = <<r.val>> \o rest.vals]

\* a description that was not loaded, and one that was
NoText == [loaded |-> FALSE, text |-> <<>>]
Text(s) == [loaded |-> TRUE, text |-> s]

\* unserialize raising exception e
Unread(e) == [raised |-> e]

\* the default bit_gentle of Router_Bit.__init__ (33 percent)
DefaultGentle == 33

\* unserialize(s, config, newformat=True): the exception it raises, or the
\* tuple (bit, boards, sp, sp_type, description) it returns.  The version
\* is loaded and not looked at.
unserialize(s) ==
    LET data == a2b_qp(s)
        head == Loads(data, 1, 7)
    IN  IF head.raised # "none" THEN Unread(head.raised)
        ELSE
        LET nb == head.vals[7]
            fields == Loads(data, head.next, 5 * nb)
        IN  IF fields.raised # "none" THEN Unread(fields.raised)
            ELSE
            LET sp == Loads(data, fields.next, 2)
            IN  IF sp.raised # "none" THEN Unread(sp.raised)
                ELSE
                LET description ==
                        IF sp.vals[1] = Edit
                        THEN [raised |-> "none", next |-> sp.next, val |-> <<>>]
                        ELSE load(data, sp.next)
                IN  IF description.raised # "none" THEN Unread(description.raised)
                    ELSE [raised |-> "none",
                          bit |-> Router_Bit(D(head.vals[4]), head.vals[5],
                                             head.vals[6], DefaultGentle),
                          metric |-> head.vals[2],
                          num_increments |-> head.vals[3],
                          boards |-> [i \in 1..nb |->
                                         [width |-> fields.vals[5 * i - 4],
                                          height |-> fields.vals[5 * i - 3],
                                          wood |-> fields.vals[5 * i - 2],
                                          active |-> fields.vals[5 * i - 1],
                                          dheight |-> fields.vals[5 * i]]],
                          sp_type |-> sp.vals[1],
                          sp |-> sp.vals[2],
                          description |-> IF sp.vals[1] = Edit THEN NoText
                                          ELSE Text(description.val)]

\* utils.VERSION of the running program, and the versions of the programs
\* that wrote a record: the same, a newer one, and one that is no version
VERSION == <<48, 46, 57>>
Versions == {VERSION, <<49, 46, 48>>, <<63>>}

\* the longest description
MaxText == 3

\* the texts of at most n characters over a letter, CR and LF
RECURSIVE Texts(_)
Texts(n) ==
    IF n = 0 THEN {<<>>}
    ELSE Texts(n - 1) \cup
         {Append(t, c) : t \in {u \in Texts(n - 1) : Len(u) = n - 1},
                         c \in {97, CR, LF}}

\* the four boards as serialize reads them, each with a wood name of its own
SerialBoards(b) ==
    [i \in 1..4 |->
        [width |-> D(MaxStackWidth), height |-> set_height(b, 0),
         wood |-> <<111, 97, 107, 48 + i>>, active |-> i <= 2, dheight |-> 0]]

\* the spacing objects: equally spaced, variable spaced and edited, with
\* their parameters and their cut list as objects
Spacings ==
    {[description |-> d \o <<32>>, metric |-> FALSE, num_increments |-> 32,
      params |-> 1, cuts |-> 2] : d \in {Equa, Vari, Edit}}

InitSerial ==
    /\ bit \in {Router_Bit(D(2), BitDepth, 0, DefaultGentle),
                Router_Bit(D(2), LF, 0, DefaultGentle),
                Router_Bit(D(4), BitDepth, 14, DefaultGentle)}
    /\ boards = SerialBoards(bit)
    /\ \E v \in Versions, sp \in Spacings, d \in Texts(MaxText) :
           file = [version |-> v, sp |-> sp, description |-> d,
                   s |-> <<>>, back |-> Unread("none")]
    /\ pc = "args"
    /\ err = "none"
    /\ call = NoCall /\ geom = NoGeometry
    /\ origin = NoOrigin /\ height = NoHeight /\ shape = NoOutput
    /\ board = Board(D(MaxStackWidth)) /\ cut = Cut(0, 0) /\ loc = NoLocals
    /\ cuts = <<>> /\ adjCuts = <<>>
    /\ spacing = <<>> /\ last = <<>> /\ top = <<>>

\* s = serialize(bit, boards, sp, config, description)
Serialize ==
    /\ pc = "args"
    /\ file' = [file EXCEPT !.s = serialize(file.version, bit, boards,
                                             file.sp, file.description)]
    /\ pc' = "written"
    /\ UNCHANGED <<bit, board, cut, loc, err, adjVars, stackVars, bitVars,
                   origin, height, shape>>

\* unserialize(s, config, newformat=True)
Unserialize ==
    /\ pc = "written"
    /\ file' = [file EXCEPT !.back = unserialize(file.s)]
    /\ pc' = "read"
    /\ UNCHANGED <<bit, board, cut, loc, err, adjVars, stackVars, bitVars,
                   origin, height, shape>>

NextSerial == Serialize \/ Unserialize

SpecSerial == InitSerial /\ [][NextSerial]_vars

---------------------------------------------------------------------------
(* Properties of Cut.make_router_passes, checked under SpecPasses *)

Returned == pc = "done"
Interior == cut.xmin > 0 /\ cut.xmax < board.width
CutWidth == cut.xmax - cut.xmin
WholeBounds == cut.xmin % Scale = 0 /\ cut.xmax % Scale = 0
EvenWidth == bit.width_f % D(2) = 0
PassSet == {cut.passes[i] : i \in 1..Len(cut.passes)}

\* how far right of x a sorted pass list covers without a gap wider than
\* precision, each pass p covering [p - r, p + r]
RECURSIVE Reach(_, _, _, _)
Reach(ps, i, x, r) ==
    IF i > Len(ps) THEN x
    ELSE IF D(ps[i]) - r <= x + precision
         THEN Reach(ps, i + 1, IF D(ps[i]) + r > x THEN D(ps[i]) + r ELSE x, r)
         ELSE x

\* C1 (coverage): when make_router_passes returns, the intervals
\* [p - width/2 + overhang, p + width/2 - overhang] of the passes p together
\* cover [xmin, xmax] to within precision.
C1_Coverage ==
    Returned =>
        Reach(cut.passes, 1, cut.xmin, HalfWidth(bit) - bit.overhang)
            >= cut.xmax - precision

\* the no-gouging condition of one pass, as the claim words it
WithinCut(p) ==
    /\ (cut.xmin = 0 \/ cut.xmin - (D(p) - HalfWidth(bit)) <= precision)
    /\ (cut.xmax = board.width \/ (D(p) + HalfWidth(bit)) - cut.xmax <= precision)

\* C2 (no gouging): when make_router_passes returns, every pass stays within
\* precision of each closed side of the cut; and a call that got past
\* validation returns exactly when all its recorded passes do (otherwise it
\* raises).
C2_NoGouging ==
    /\ Returned => \A p \in PassSet : WithinCut(p)
    /\ (pc \in {"done", "raised"} /\ err # "validate")
           => (pc = "done" <=> \A p \in PassSet : WithinCut(p))

C2_Witness ==
    Returned /\ Interior /\ Len(cut.passes) >= 2

\* C3 as claimed (boundedness): when make_router_passes returns, every pass p
\* has 0 <= p <= board.width.
C3_Bounded ==
    Returned => \A p \in PassSet : 0 <= D(p) /\ D(p) <= board.width

\* C3 as amended: every pass lies within half a bit width of the board,
\* -width/2 <= p <= board.width + width/2, and within [0, board.width] when
\* the cut touches neither board edge.
C3_BoundedAmended ==
    Returned =>
        \A p \in PassSet :
            /\ -HalfWidth(bit) <= D(p)
            /\ D(p) <= board.width + HalfWidth(bit)
            /\ Interior => (0 <= D(p) /\ D(p) <= board.width)

C3_Witness ==
    Returned /\ cut.xmax = board.width /\ \E p \in PassSet : D(p) > board.width

\* C4 (termination): the while loop of make_router_passes exits after
\* finitely many iterations.  The loop is deterministic in p0, p1 and
\* remainder, so it exits only if no iteration comes back to the loop test
\* with these three unchanged and remainder still positive.
C4_Terminates ==
    [][(pc = "loop" /\ pc' = "loop" /\ loc.remainder > 0)
          => ~(/\ loc'.p0 = loc.p0
               /\ loc'.p1 = loc.p1
               /\ loc'.remainder = loc.remainder)]_vars

\* C5 as claimed: a cut narrower than the bit by more than precision that
\* does not touch the right board edge never returns (it raises), a cut that
\* starts at the left edge included.
C5_NarrowRaises ==
    (bit.width_f - CutWidth > precision /\ cut.xmax < board.width)
        => ~Returned

\* C5 as amended: such a cut raises when it touches neither board edge; a
\* narrow cut that starts at the left edge (xmin = 0) is accepted, and with a
\* whole-increment xmax it gets the single pass xmax - width/2, which lies
\* left of the board.
C5_NarrowAmended ==
    /\ (bit.width_f - CutWidth > precision /\ Interior /\ cut.xmin < cut.xmax)
           => pc \in {"start", "raised"}
    /\ (/\ bit.width_f - CutWidth > precision
        /\ cut.xmin = 0 /\ cut.xmax > 0 /\ cut.xmax < board.width
        /\ WholeBounds /\ EvenWidth)
           => /\ pc # "raised"
              /\ pc \in {"check", "done"}
                    => cut.passes = <<ToInt(cut.xmax - HalfWidth(bit))>>

C5_Witness ==
    /\ pc = "raised"
    /\ bit.width_f - CutWidth > precision /\ Interior /\ cut.xmin < cut.xmax

\* C6 as claimed: a cut that touches neither board edge returns only if its
\* width equals the bit width within precision.
C6_InteriorEqualWidth ==
    (Returned /\ Interior)
        => (CutWidth - bit.width_f <= precision /\ bit.width_f - CutWidth <= precision)

\* C6 as amended: for a cut that touches neither board edge, validate raises
\* exactly when the cut is narrower than the bit by more than precision; an
\* interior cut wider than the bit passes validation, and with whole-increment
\* bounds it never raises.
C6_InteriorAmended ==
    (Interior /\ cut.xmin < cut.xmax /\ pc # "start")
        => /\ err = "validate" <=> bit.width_f - CutWidth > precision
           /\ (CutWidth - bit.width_f > precision /\ WholeBounds /\ EvenWidth)
                  => err = "none"

C6_Witness ==
    Returned /\ Interior /\ WholeBounds /\ CutWidth - bit.width_f > precision
        /\ Len(cut.passes) >= 2

\* C7: when make_router_passes returns, the pass list is non-empty and sorted
\* ascending.
C7_NonEmptySorted ==
    Returned =>
        /\ Len(cut.passes) >= 1
        /\ \A i \in 1..(Len(cut.passes) - 1) : cut.passes[i] <= cut.passes[i + 1]

\* C8: a straight bit of even width w and a cut [x, x + w] with x a whole
\* number of increments, x > 0 and x + w < board.width: the call returns
\* (it neither raises nor keeps looping) with exactly one pass, at x + w/2.
C8_Applies ==
    /\ bit.angle = 0 /\ EvenWidth
    /\ WholeBounds /\ Interior
    /\ cut.xmax = cut.xmin + bit.width_f

C8_SinglePass ==
    C8_Applies =>
        /\ pc # "raised"
        /\ (pc = "loop" /\ loc.iter >= 1) => loc.remainder = 0
        /\ pc \in {"check", "done"}
              => cut.passes = <<ToInt(cut.xmin + HalfWidth(bit))>>

C8_Witness ==
    C8_Applies /\ Returned

---------------------------------------------------------------------------
(* Properties of adjoining_cuts, checked under SpecAdjoin *)

Bounds(cs) == {<<cs[i].xmin, cs[i].xmax>> : i \in 1..Len(cs)}

\* the intervals of S tile [0, w]: each is proper, no two overlap, one starts
\* at 0, and each ends at w or where another starts
Tiles(S, w) ==
    /\ \A iv \in S : iv[1] < iv[2]
    /\ \A iv \in S : \A jv \in S : (iv # jv) => (iv[2] <= jv[1] \/ jv[2] <= iv[1])
    /\ \E iv \in S : iv[1] = 0
    /\ \A iv \in S : iv[2] = w \/ \E jv \in S : jv[1] = iv[2]

\* no two cuts of the list touch or overlap, and the list is ordered
Apart(cs) == \A i \in 1..(Len(cs) - 1) : cs[i].xmax < cs[i + 1].xmin

C9_Applies ==
    /\ pc = "done"
    /\ bit.angle = 0 /\ board.dheight = 0
    /\ Apart(cuts)

\* C9 as claimed: for a straight bit and dheight = 0, adjoining_cuts of an
\* ordered list of cuts that neither overlap nor touch returns exactly the
\* complement intervals: input and output cuts together tile [0, board.width],
\* and no two output cuts touch.
C9_Complement ==
    C9_Applies =>
        /\ Tiles(Bounds(cuts) \cup Bounds(adjCuts), board.width)
        /\ Cardinality(Bounds(cuts) \cup Bounds(adjCuts)) = Len(cuts) + Len(adjCuts)
        /\ Apart(adjCuts)

\* the output list with the right bound of a leading left-edge cut replaced
\* by x
WithLeadingBound(out, x) ==
    IF Len(out) > 0 /\ out[1].xmin = 0 /\ cuts[1].xmin > 0
    THEN [out EXCEPT ![1].xmax = x]
    ELSE out

\* C9 as amended: the same, except that the right bound of the output cut
\* that starts at the left board edge is cuts[0].xmin rounded to four decimal
\* places (a multiple of 0.0001 at most 0.00005 away); the tiling is exact
\* when cuts[0].xmin has at most four decimal places.
C9_ComplementAmended ==
    C9_Applies =>
        LET out == WithLeadingBound(adjCuts, cuts[1].xmin)
        IN  /\ Tiles(Bounds(cuts) \cup Bounds(out), board.width)
            /\ Cardinality(Bounds(cuts) \cup Bounds(out)) = Len(cuts) + Len(out)
            /\ Apart(out)
            /\ cuts[1].xmin > 0 =>
                   /\ Len(adjCuts) > 0
                   /\ adjCuts[1].xmax % q_prec = 0
                   /\ 2 * (adjCuts[1].xmax - cuts[1].xmin) <= q_prec
                   /\ 2 * (cuts[1].xmin - adjCuts[1].xmax) <= q_prec
            /\ cuts[1].xmin % q_prec = 0 => out = adjCuts

C9_Witness ==
    /\ C9_Applies
    /\ Len(cuts) >= 2 /\ Len(adjCuts) = Len(cuts) + 1
    /\ cuts[1].xmin % q_prec # 0

---------------------------------------------------------------------------
(* Properties of cut_boards, checked under SpecStack *)

\* the cuts of a list as adjoining_cuts returns them, before any passes
Unpassed(cs) == [i \in 1..Len(cs) |-> Cut(cs[i].xmin, cs[i].xmax)]

\* edge e was derived by adjoining_cuts from the list src against board bd
DerivedFrom(e, src, bd) ==
    /\ e.assigned
    /\ Len(src) > 0
    /\ Unpassed(e.cuts) = adjoining_cuts(src, bit, bd)

\* C10 as claimed: with boards[3] active, cut_boards derives boards[3].top_cuts
\* from the initial cuts, boards[3].bottom_cuts from those, and
\* boards[1].top_cuts directly from boards[3].bottom_cuts; boards[2] gets no
\* cuts, whatever boards[2].active is.
C10_DoubleDoubleChain ==
    (pc = "done" /\ boards[3].active) =>
        /\ DerivedFrom(boards[3].top_cuts, spacing, boards[0])
        /\ DerivedFrom(boards[3].bottom_cuts, boards[3].top_cuts.cuts, boards[3])
        /\ DerivedFrom(boards[1].top_cuts, boards[3].bottom_cuts.cuts, boards[1])
        /\ ~boards[2].top_cuts.assigned /\ ~boards[2].bottom_cuts.assigned

\* C10 as amended: with boards[3] active, boards[3].top_cuts derives from the
\* initial cuts and boards[3].bottom_cuts from those; the boards[2] step is a
\* separate "if", so when boards[2] is active too, boards[2].top_cuts derives
\* from boards[3].bottom_cuts, boards[2].bottom_cuts from those, and
\* boards[1].top_cuts from boards[2].bottom_cuts; only when boards[2] is
\* inactive does boards[1].top_cuts derive directly from
\* boards[3].bottom_cuts, boards[2] getting no cuts.
C10_DoubleDoubleChainAmended ==
    (pc = "done" /\ boards[3].active) =>
        /\ DerivedFrom(boards[3].top_cuts, spacing, boards[0])
        /\ DerivedFrom(boards[3].bottom_cuts, boards[3].top_cuts.cuts, boards[3])
        /\ IF boards[2].active
           THEN /\ DerivedFrom(boards[2].top_cuts, boards[3].bottom_cuts.cuts, boards[0])
                /\ DerivedFrom(boards[2].bottom_cuts, boards[2].top_cuts.cuts, boards[2])
                /\ DerivedFrom(boards[1].top_cuts, boards[2].bottom_cuts.cuts, boards[1])
           ELSE /\ DerivedFrom(boards[1].top_cuts, boards[3].bottom_cuts.cuts, boards[1])
                /\ ~boards[2].top_cuts.assigned /\ ~boards[2].bottom_cuts.assigned

C10_Witness ==
    /\ pc = "done" /\ boards[3].active /\ boards[2].active
    /\ boards[2].top_cuts.assigned
    /\ Unpassed(boards[1].top_cuts.cuts)
           # adjoining_cuts(boards[3].bottom_cuts.cuts, bit, boards[1])

---------------------------------------------------------------------------
(* cut_boards: the base pipeline and the shape of the lists it assigns *)

\* the cut lists cut_boards may assign, as <<board index, edge>>
Edges == {<<i, e>> : i \in 0..3, e \in {"top", "bottom"}}

EdgeOf(x) ==
    IF x[2] = "top" THEN boards[x[1]].top_cuts ELSE boards[x[1]].bottom_cuts

\* the last edge of the propagation chain: the one boards[1].top_cuts is
\* derived from
LastEdge ==
    IF boards[2].active THEN boards[2].bottom_cuts
    ELSE IF boards[3].active THEN boards[3].bottom_cuts
    ELSE boards[0].bottom_cuts

\* every cut of cs carries the passes make_router_passes computes against bd
PassedAgainst(cs, bd) ==
    \A i \in 1..Len(cs) :
        LET r == make_router_passes(bit, bd, Cut(cs[i].xmin, cs[i].xmax))
        IN  r.status = "ok" /\ cs[i] = r.cut

\* C11: when cut_boards returns, boards[0].bottom_cuts is the initial cut
\* list, each cut with its passes computed against boards[0], and
\* boards[1].top_cuts is adjoining_cuts of the last edge of the chain; when
\* neither boards[2] nor boards[3] is active, boards[1].top_cuts is
\* adjoining_cuts(initial cuts, bit, boards[1]) and boards[2] and boards[3]
\* keep their cut lists unassigned.
C11_BasePipeline ==
    pc = "done" =>
        /\ boards[0].bottom_cuts = List(spacing)
        /\ PassedAgainst(spacing, boards[0])
        /\ DerivedFrom(boards[1].top_cuts, LastEdge.cuts, boards[1])
        /\ PassedAgainst(boards[1].top_cuts.cuts, boards[1])
        /\ (~boards[2].active /\ ~boards[3].active) =>
               /\ DerivedFrom(boards[1].top_cuts, spacing, boards[1])
               /\ \A i \in {2, 3} : boards[i].top_cuts = None
                                    /\ boards[i].bottom_cuts = None

C11_Witness ==
    /\ pc = "done" /\ ~boards[2].active /\ ~boards[3].active
    /\ Len(spacing) > 0 /\ Len(boards[1].top_cuts.cuts) = 2
    /\ \E i \in 1..Len(spacing) : Len(spacing[i].passes) > 1

\* cs is ordered left to right without overlap, every cut within [0, w]
OrderedWithin(cs, w) ==
    /\ \A i \in 1..Len(cs) : 0 <= cs[i].xmin /\ cs[i].xmin < cs[i].xmax
                             /\ cs[i].xmax <= w
    /\ \A i \in 1..(Len(cs) - 1) : cs[i].xmax <= cs[i + 1].xmin

\* C12: when cut_boards returns, every cut list it assigned is ordered left
\* to right, non-overlapping, and every cut lies within its board.
C12_OrderedLists ==
    pc = "done" =>
        \A x \in Edges :
            EdgeOf(x).assigned => OrderedWithin(EdgeOf(x).cuts, boards[x[1]].width)

---------------------------------------------------------------------------
(* adjoining_cuts applied twice to one interior cut *)

Abs(x) == IF x < 0 THEN -x ELSE x

\* the first call was given a single cut strictly inside the board
SingleInterior ==
    /\ Len(cuts) = 1
    /\ 0 < cuts[1].xmin /\ cuts[1].xmin < cuts[1].xmax
    /\ cuts[1].xmax < board.width

\* the second call has ended, by returning or by raising
BackEnded == pc = "back" \/ (pc = "raised" /\ Len(cuts) > 0)

\* C13: adjoining_cuts(adjoining_cuts([c], bit, board), bit, board) contains
\* a cut whose xmin and xmax each differ from c.xmin and c.xmax by at most
\* 2 * (bit.width - bit.midline), for every bit, every dheight >= 0 and
\* every single cut c strictly inside the board.
C13_RoundTrip ==
    (SingleInterior /\ BackEnded) =>
        /\ pc = "back"
        /\ \E i \in 1..Len(last) :
               /\ Abs(last[i].xmin - cuts[1].xmin) <= 2 * (bit.width_f - bit.midline)
               /\ Abs(last[i].xmax - cuts[1].xmax) <= 2 * (bit.width_f - bit.midline)

---------------------------------------------------------------------------
(* Router_Bit: derived fields, setter invariants, rejected calls *)

\* width - depth * tan(angle), before rounding
RawMidline == bit.width - bit.depth * Tan(bit.angle)

\* C14: the derived fields agree with the current width, depth and angle:
\* for a straight bit midline = width, gap = 0, overhang = 0 and
\* depth_0 = depth; for a dovetail bit midline is the whole number nearest
\* to width - depth * tan(angle) (a tie going to the lower one), gap is the
\* difference, with -1/2 < gap <= 1/2, and overhang = (width - midline) / 2.
C14_DerivedFresh ==
    /\ bit.width_f = bit.width
    /\ bit.angle = 0 =>
           /\ bit.midline = bit.width /\ bit.gap = 0
           /\ bit.overhang = 0 /\ bit.depth_0 = D(bit.depth)
    /\ bit.angle > 0 =>
           /\ bit.midline % Scale = 0
           /\ bit.gap = RawMidline - bit.midline
           /\ -Scale < 2 * bit.gap /\ 2 * bit.gap <= Scale
           /\ 2 * bit.overhang = bit.width - bit.midline

C14_Witness ==
    /\ call.op = "set_depth" /\ err = "none"
    /\ bit.angle > 0 /\ bit.gap < 0

\* C15: whenever the bit is straight, its width is an even whole number of
\* increments.
C15_StraightEven == bit.angle = 0 => bit.width % D(2) = 0

\* C16: whenever the bit is a dovetail bit, its depth is below the maximum
\* (width / 3.5) / tan(angle) that set_depth_from_string enforces.
C16_DepthWithinMax == ~DepthTooLarge(bit.width, bit.angle, bit.depth)

\* the rejections of the setters: non-positive width, odd or fractional
\* width on a straight bit, non-positive or too large depth, negative
\* angle, gentleness outside [1, 100]
Rejects(b, c) ==
    \/ c.op = "set_width" /\ c.parses /\ c.value <= 0
    \/ c.op = "set_width" /\ c.parses /\ b.angle = 0 /\ c.value % D(2) # 0
    \/ c.op = "set_depth" /\ c.parses /\ c.value <= 0
    \/ c.op = "set_depth" /\ c.parses /\ DepthTooLarge(b.width, b.angle, c.value)
    \/ c.op = "set_angle" /\ c.parses /\ c.value < 0
    \/ c.op = "set_gentle" /\ c.parses /\ (c.value < 1 \/ c.value > 100)

\* C17: a setter that rejects its argument raises Router_Exception, and a
\* setter that raises leaves width, depth, angle, bit_gentle and the
\* derived fields as they were before the call.
C17_RejectKeepsState ==
    [][/\ Rejects(bit, call') => err' = "Router_Exception"
       /\ err' = "Router_Exception" => bit' = bit]_vars

C17_Witness ==
    /\ call.op = "set_angle" /\ call.parses /\ call.value < 0
    /\ err = "Router_Exception" /\ bit.angle > 0

\* C18: after compute_fit, max_gap = max(0, bit.gap) and
\* max_overlap = max(0, -bit.gap); never both nonzero, and exactly one
\* nonzero if and only if bit.gap # 0.
C18_FitDiagnostics ==
    call.op = "compute_fit" =>
        /\ geom.built
        /\ geom.max_gap = Max(0, bit.gap)
        /\ geom.max_overlap = Max(0, -bit.gap)
        /\ ~(geom.max_gap # 0 /\ geom.max_overlap # 0)
        /\ (geom.max_gap # 0 \/ geom.max_overlap # 0) <=> bit.gap # 0

C18_Witness == call.op = "compute_fit" /\ bit.gap > 0 /\ geom.max_gap = bit.gap

C18_WitnessOverlap == call.op = "compute_fit" /\ bit.gap < 0

---------------------------------------------------------------------------
(* cut_boards: empty cut lists, and which edges of a board get cuts *)

\* some cut list cut_boards assigned is empty
SomeEdgeEmpty == \E x \in Edges : EdgeOf(x).assigned /\ Len(EdgeOf(x).cuts) = 0

\* C19: cut_boards given an empty initial cut list, or a cut list whose
\* propagation yields an empty list for some edge, does not raise.
C19_ZeroCutsValid == (Len(spacing) = 0 \/ SomeEdgeEmpty) => pc # "raised"

\* C20 as claimed: when cut_boards returns, no board has cut lists on both
\* of its edges.
C20_OneEdgePerBoard ==
    pc = "done" =>
        \A i \in 0..3 : ~(boards[i].top_cuts.assigned /\ boards[i].bottom_cuts.assigned)

\* C20 as amended: when cut_boards returns, boards[0] has bottom cuts only,
\* boards[1] has top cuts only, an active boards[2] or boards[3] has cut
\* lists on both of its edges and an inactive one on neither.
C20_EdgesPerBoard ==
    pc = "done" =>
        /\ boards[0].bottom_cuts.assigned /\ ~boards[0].top_cuts.assigned
        /\ boards[1].top_cuts.assigned /\ ~boards[1].bottom_cuts.assigned
        /\ \A i \in {2, 3} :
               /\ boards[i].top_cuts.assigned <=> boards[i].active
               /\ boards[i].bottom_cuts.assigned <=> boards[i].active

C20_Witness ==
    /\ pc = "done" /\ boards[2].active /\ ~boards[3].active
    /\ Len(boards[2].top_cuts.cuts) > 0 /\ Len(boards[2].bottom_cuts.cuts) > 0

---------------------------------------------------------------------------
(* Joint_Geometry: the origins of the boards *)

\* the active boards in stacking order, bottom-up: boards[1], boards[2],
\* boards[3], boards[0]
RECURSIVE ActiveOf(_)
ActiveOf(order) ==
    IF order = <<>> THEN <<>>
    ELSE (IF boards[Head(order)].active THEN <<Head(order)>> ELSE <<>>)
             \o ActiveOf(Tail(order))

StackOrder == ActiveOf(<<1, 2, 3, 0>>)

\* C21: after a Joint_Geometry is built, the active boards are stacked
\* bottom-up in the order boards[1], boards[2], boards[3], boards[0]: the
\* first at the y the layout starts from, each next one's bottom y at the
\* previous one's top y plus the board separation, all at the same x; for
\* every combination of the active flags of boards[2] and boards[3].
C21_StackedOrigins ==
    pc = "built" =>
        /\ \A k \in 1..Len(StackOrder) : origin[StackOrder[k]].xOrg = loc.x
        /\ \A k \in 1..(Len(StackOrder) - 1) :
               origin[StackOrder[k + 1]].yOrg = yT(StackOrder[k]) + loc.board_sep

\* C22: if the build raises Router_Exception part-way, no board's top_cuts,
\* bottom_cuts or origin and no cut's passes have been changed by it.
C22_AtomicRebuild ==
    (pc = "raised" /\ err \in {"validate", "pass"}) =>
        /\ \A i \in 0..3 : boards[i].top_cuts = None /\ boards[i].bottom_cuts = None
        /\ \A k \in 1..Len(spacing) : spacing[k].passes = <<>>
        /\ \A i \in 0..3 : origin[i] = Origin0

---------------------------------------------------------------------------
(* Router_Bit.set_depth_from_string: the reported maximum; Board.height *)

\* round((width / 3.5) / tan(angle)): the maximum the error message of
\* set_depth_from_string reports (a tie going to the even integer)
ReportedMax(width, angle) ==
    LET q == (10 * width) \div (35 * Tan(angle))
        r == (10 * width) % (35 * Tan(angle))
    IN  IF 2 * r > 35 * Tan(angle) \/ (2 * r = 35 * Tan(angle) /\ q % 2 = 1)
        THEN q + 1 ELSE q

\* C26: on a dovetail bit set_depth_from_string accepts exactly the
\* positive depths up to and including the maximum its message reports,
\* and rejects every greater depth.
C26_DepthUpToReportedMax ==
    [][(call'.op = "set_depth" /\ call'.parses /\ bit.angle > 0) =>
          (err' = "none" <=>
              (call'.value > 0 /\ call'.value <= ReportedMax(bit.width, bit.angle)))]_vars

\* C27: the board's height equals the current bit.depth plus its extra
\* thickness: dheight when dheight > 0, otherwise round(bit.depth / 2).
C27_HeightFollowsDepth ==
    height = bit.depth
                 + (IF board.dheight > 0 THEN board.dheight
                    ELSE my_round_half(bit.depth))

---------------------------------------------------------------------------
(* Board.perimeter and Board.triangulate *)

\* TRUE when the board has a cut list on exactly one edge
OneEdge == board.top_cuts.assigned # board.bottom_cuts.assigned

\* C25: Board.triangulate called on a board that has cut lists on both its
\* top and its bottom edge raises Router_Exception rather than returning a
\* mesh.
C25_BothEdgesRaise ==
    \A k \in 1..Len(shape) :
        (/\ shape[k].op = "triangulate"
         /\ board.top_cuts.assigned /\ board.bottom_cuts.assigned)
            => shape[k].raised = "Router_Exception"

\* TRUE when q follows p directly in the point list ps
Follows(ps, p, q) == \E j \in 1..(Len(ps) - 1) : ps[j] = p /\ ps[j + 1] = q

\* C28: in the polygon perimeter returns, every cut c with c.xmin > 0 has
\* its surface-level start vertex at x = xL + c.xmin + 2*overhang - gap/2,
\* next to its start vertex at the cut depth, whether or not the first cut
\* of the edge starts at the left board edge; and the polygon is closed,
\* its last vertex equal to its first.
C28_SurfaceStartMirrored ==
    \A k \in 1..Len(shape) :
        shape[k].op = "perimeter" =>
            LET ps == shape[k].v
                o == shape[k].at
                halfgap == bit.gap \div 2
                overhang == 2 * bit.overhang
                surface(c, y) == Pt(xL(o) + c.xmin + overhang - halfgap, y)
                routed(c, y) == Pt(xL(o) + c.xmin - halfgap, y)
            IN  /\ ps[Len(ps)] = ps[1]
                /\ board.top_cuts.assigned =>
                       \A i \in 1..Len(board.top_cuts.cuts) :
                           LET c == board.top_cuts.cuts[i]
                           IN  c.xmin > 0 =>
                                   Follows(ps, surface(c, yTopOf(o, height)),
                                           routed(c, yTopOf(o, height) - D(bit.depth)))
                /\ board.bottom_cuts.assigned =>
                       \A i \in 1..Len(board.bottom_cuts.cuts) :
                           LET c == board.bottom_cuts.cuts[i]
                           IN  c.xmin > 0 =>
                                   Follows(ps, routed(c, yB(o) + D(bit.depth)),
                                           surface(c, yB(o)))

\* twice the signed area of the triangle p, q, r, in whole increments
Cross(p, q, r) ==
    ((q.x - p.x) \div Scale) * ((r.y - p.y) \div Scale)
        - ((r.x - p.x) \div Scale) * ((q.y - p.y) \div Scale)

\* twice the area the triangles t over the vertex list v cover
RECURSIVE MeshArea2(_, _)
MeshArea2(v, t) ==
    IF t = <<>> THEN 0
    ELSE Abs(Cross(At(v, Head(t)[1]), At(v, Head(t)[2]), At(v, Head(t)[3])))
             + MeshArea2(v, Tail(t))

\* twice the signed area the closed polygon ps encloses, from edge j on
RECURSIVE Shoelace(_, _)
Shoelace(ps, j) ==
    IF j >= Len(ps) THEN 0
    ELSE Cross(ps[1], ps[j], ps[j + 1]) + Shoelace(ps, j + 1)

\* C29: for a board with a non-empty cut list on exactly one edge and a
\* straight bit, triangulate returns a mesh that tiles the outline: every
\* triangle index is a valid index into the vertex list, and the triangle
\* areas add up to the area the polygon of perimeter encloses; whether or
\* not the first cut starts at the left board edge and the last cut ends at
\* the right board edge.
C29_MeshTilesOutline ==
    \A i \in 1..Len(shape), j \in 1..Len(shape) :
        (/\ shape[i].op = "triangulate" /\ shape[j].op = "perimeter"
         /\ shape[i].at = shape[j].at
         /\ bit.angle = 0 /\ OneEdge)
            => /\ shape[i].raised = "none"
               /\ \A n \in 1..Len(shape[i].t) : \A m \in 1..3 :
                      shape[i].t[n][m] \in 0..(Len(shape[i].v) - 1)
               /\ MeshArea2(shape[i].v, shape[i].t) = Abs(Shoelace(shape[j].v, 1))

\* C30: perimeter and triangulate are translation-equivariant: for a board
\* with cuts on one edge, moving the origin by (dx, dy) shifts every
\* returned vertex by exactly (dx, dy) and leaves the vertex count and the
\* triangle index triples unchanged.
C30_TranslationEquivariant ==
    \A i \in 1..Len(shape), j \in 1..Len(shape) :
        (shape[i].op = shape[j].op /\ OneEdge) =>
            LET dx == shape[j].at.xOrg - shape[i].at.xOrg
                dy == shape[j].at.yOrg - shape[i].at.yOrg
            IN  /\ shape[j].raised = shape[i].raised
                /\ Len(shape[j].v) = Len(shape[i].v)
                /\ shape[j].t = shape[i].t
                /\ \A n \in 1..Len(shape[i].v) :
                       shape[j].v[n] = Pt(shape[i].v[n].x + D(dx),
                                          shape[i].v[n].y + D(dy))

---------------------------------------------------------------------------
(* serialize / unserialize *)

\* C23: unserialize(serialize(bit, boards, sp, config, description), config,
\* newformat=True) returns the bit's width, depth and angle, every board's
\* width, height, wood, active and dheight, the spacing tag with its
\* parameters or its cut list, and the description, all equal to what was
\* serialized; for equally spaced, variable spaced and edited spacing alike.
C23_RoundTrip ==
    (pc = "read" /\ file.version = VERSION) =>
        /\ file.back.raised = "none"
        /\ file.back.bit.width = bit.width
        /\ file.back.bit.depth = bit.depth
        /\ file.back.bit.angle = bit.angle
        /\ file.back.boards = boards
        /\ file.back.sp_type = SubSeq(file.sp.description, 1, 4)
        /\ file.back.sp = (IF file.back.sp_type = Edit THEN file.sp.cuts
                           ELSE file.sp.params)
        /\ file.back.description = Text(file.description)

\* C24: unserialize rejects a record whose stored version is unknown or
\* newer than the running code's with a handled error (Router_Exception):
\* it neither builds a bit, boards and spacing from the record nor raises
\* anything else.
C24_RejectsOtherVersion ==
    (pc = "read" /\ file.version # VERSION) =>
        file.back.raised = "Router_Exception"

=============================================================================
